---------------------------- MODULE Spec2Model ----------------------------
(***************************************************************************)
(* The crowding prediction engine (lib/predictionEngine.ts, with the       *)
(* distance helper of lib/geoUtils.ts): seed-anchored clustering of        *)
(* reports, the five-factor scorer, and the three query operations         *)
(* generateCrowdingPredictions, getHourlyPredictions, getPredictionForTime.*)
(*                                                                         *)
(* Numbers.  A JavaScript number is modelled as an exact rational          *)
(* [n |-> numerator, d |-> denominator] in lowest terms with d > 0; d = 0  *)
(* encodes the non-finite values: n = 1 is Infinity, n = -1 is -Infinity,  *)
(* n = 0 is NaN.  Floating-point rounding error is not modelled.           *)
(*                                                                         *)
(* Space.  All points lie on one meridian (equal longitude), so a location *)
(* is its latitude, in thousandths of a degree.  On a meridian the         *)
(* haversine formula reduces to R * |dLat| (in radians).                   *)
(*                                                                         *)
(* Time.  An instant is a count of half hours since the epoch, read in the *)
(* UTC time zone; the code's milliseconds are not resolved further.        *)
(***************************************************************************)
EXTENDS Integers, Sequences, FiniteSets, TLC

VARIABLES
    reports,   \* the stored user reports (collection USER_REPORTS), in fetch order
    zones,     \* the stored zones (collection ZONES): a sequence of centers
    now,       \* the wall clock, Date.now()
    ticks,     \* how often the clock has advanced
    calls      \* the engine calls: each call's position and local variables

vars == <<reports, zones, now, ticks, calls>>

---------------------------------------------------------------------------
(* JavaScript numbers as rationals *)

Abs(x) == IF x < 0 THEN -x ELSE x

Sgn(x) == IF x < 0 THEN -1 ELSE IF x > 0 THEN 1 ELSE 0

RECURSIVE GCD(_, _)
GCD(a, b) == IF b = 0 THEN a ELSE GCD(b, a % b)

\* The number n/d. n/0 is Infinity, -Infinity or NaN by the sign of n.
Rat(n, d) ==
    IF d = 0 THEN [n |-> Sgn(n), d |-> 0]
    ELSE LET g == GCD(Abs(n), Abs(d))
             s == IF d < 0 THEN -1 ELSE 1
         IN  [n |-> (s * n) \div g, d |-> (s * d) \div g]

Q(i) == [n |-> i, d |-> 1]

NaN == [n |-> 0, d |-> 0]

Infinity == [n |-> 1, d |-> 0]

IsNaN(a) == a.d = 0 /\ a.n = 0

\* The product, cancelled crosswise before it is multiplied out
QMul(a, b) ==
    IF a.d = 0 \/ b.d = 0 THEN Rat(Sgn(a.n) * Sgn(b.n), 0)
    ELSE LET g == GCD(Abs(a.n), b.d)
             h == GCD(Abs(b.n), a.d)
         IN  Rat((a.n \div g) * (b.n \div h), (a.d \div h) * (b.d \div g))

QInv(a) == IF a.n < 0 THEN Rat(-a.d, -a.n) ELSE Rat(a.d, a.n)

QDiv(a, b) == QMul(a, QInv(b))

QAdd(a, b) ==
    IF a.d = 0 /\ b.d = 0
    THEN (IF a.n = b.n THEN a ELSE NaN)
    ELSE IF a.d = 0 THEN a
    ELSE IF b.d = 0 THEN b
    ELSE LET g == GCD(a.d, b.d)
         IN  Rat(a.n * (b.d \div g) + b.n * (a.d \div g), (a.d \div g) * b.d)

QNeg(a) == [n |-> -a.n, d |-> a.d]

QSub(a, b) == QAdd(a, QNeg(b))

\* a < b, a <= b: false when either side is NaN
QLt(a, b) ==
    /\ ~IsNaN(a) /\ ~IsNaN(b)
    /\ IF a.d = 0 \/ b.d = 0
       THEN (IF a.d = 0 /\ b.d = 0 THEN a.n < b.n
             ELSE IF a.d = 0 THEN a.n < 0 ELSE b.n > 0)
       ELSE LET g == GCD(a.d, b.d)
            IN  a.n * (b.d \div g) < b.n * (a.d \div g)

QEq(a, b) == ~IsNaN(a) /\ ~IsNaN(b) /\ a = b

QLe(a, b) == QLt(a, b) \/ QEq(a, b)

QGt(a, b) == QLt(b, a)

QAbs(a) == [n |-> Abs(a.n), d |-> a.d]

\* Math.min(a, b): NaN when either argument is NaN
MathMin(a, b) ==
    IF IsNaN(a) \/ IsNaN(b) THEN NaN ELSE IF QLt(b, a) THEN b ELSE a

\* Math.round(a): the nearest integer, a half rounding up
MathRound(a) == IF a.d = 0 THEN a ELSE Q((2 * a.n + a.d) \div (2 * a.d))

---------------------------------------------------------------------------
(* Time *)

\* clock units per hour (the code's 60 * 60 * 1000 ms)
Hour == 2

Day == 24 * Hour

\* new Date(t).getHours() and .getDay(); the epoch day is a Thursday
getHours(t) == (t \div Hour) % 24

getDay(t) == ((t \div Day) + 4) % 7

---------------------------------------------------------------------------
(* geoUtils.calculateDistance *)

\* Earth's radius in kilometers
R == 6371

\* R * toRad(0.001 degree) = R * pi / 180000 km, with pi taken as 355/113
KmPerMilliDegree == Rat(R * 355, 113 * 180000)

\* The great-circle distance in km of two points of the meridian
calculateDistance(lat1, lat2) ==
    QMul(QAbs(QSub(lat2, lat1)), KmPerMilliDegree)

---------------------------------------------------------------------------
(* clusterReportsByLocation.  A report is [id, location, severity,        *)
(* createdAt]; its description, from which a cluster takes its name, is    *)
(* modelled as a text unique to the report and stands as the report's id.  *)

RECURSIVE SumLocations(_, _)
SumLocations(rs, i) ==
    IF i > Len(rs) THEN Q(0) ELSE QAdd(rs[i].location, SumLocations(rs, i + 1))

\* The mean of the members after the seed, the seed's own location if alone
centroidWithoutSeed(rs) ==
    IF Len(rs) = 1 THEN rs[1].location
    ELSE QDiv(SumLocations(rs, 2), Q(Len(rs) - 1))

\* The centroid of lines 250-252
centroid(rs) == QDiv(SumLocations(rs, 1), Q(Len(rs)))

\* The test against the centroid of the members so far
withinRadiusOfCentroid(cluster, report, other, radiusKm) ==
    QLe(calculateDistance(centroid(cluster.reports), other.location), radiusKm)

\* The test with < in place of <=
withinRadiusStrictly(cluster, report, other, radiusKm) ==
    QLt(calculateDistance(report.location, other.location), radiusKm)

\* A transitive (chaining) test: against the member added last
withinRadiusOfLast(cluster, report, other, radiusKm) ==
    QLe(calculateDistance(cluster.reports[Len(cluster.reports)].location,
                          other.location), radiusKm)

\* The membership test of lines 236-243: against the seed's own location
withinRadius(cluster, report, other, radiusKm) ==
    QLe(calculateDistance(report.location, other.location), radiusKm)

\* A set that forgets what is added to it
markNothing(processed, id) == processed

\* processed.add(id) of lines 245 and 254
markProcessed(processed, id) == processed \cup {id}

\* The inner loop of lines 233-247, from position j on
RECURSIVE findNearby(_, _, _, _, _, _)
findNearby(rs, report, radiusKm, j, cluster, processed) ==
    IF j > Len(rs) THEN [cluster |-> cluster, processed |-> processed]
    ELSE LET other == rs[j] IN
         IF other.id = report.id \/ other.id \in processed
         THEN findNearby(rs, report, radiusKm, j + 1, cluster, processed)
         ELSE IF withinRadius(cluster, report, other, radiusKm)
         THEN findNearby(rs, report, radiusKm, j + 1,
                         [cluster EXCEPT !.reports = Append(@, other)],
                         markProcessed(processed, other.id))
         ELSE findNearby(rs, report, radiusKm, j + 1, cluster, processed)

\* clusters.unshift(cluster): the new cluster put first
unshiftCluster(clusters, cluster) == <<cluster>> \o clusters

\* clusters.push(cluster) of line 255
pushCluster(clusters, cluster) == Append(clusters, cluster)

\* The centroid written into the array that cluster.center shares with the
\* seed's location since line 227
writeCenter(cluster, center) ==
    [cluster EXCEPT !.center = center, !.reports[1].location = center]

\* cluster.center = [avgLng, avgLat] of line 252: a new array is assigned
setCenter(cluster, center) == [cluster EXCEPT !.center = center]

\* The outer loop of lines 223-256, from position i on
RECURSIVE clusterLoop(_, _, _, _, _)
clusterLoop(rs, radiusKm, i, clusters, processed) ==
    IF i > Len(rs) THEN clusters
    ELSE LET report == rs[i] IN
         IF report.id \in processed
         THEN clusterLoop(rs, radiusKm, i + 1, clusters, processed)
         ELSE LET seeded == [center |-> report.location,
                             reports |-> <<report>>,
                             name |-> report.id]
                  found == findNearby(rs, report, radiusKm, 1, seeded, processed)
                  cluster == setCenter(found.cluster,
                                       centroid(found.cluster.reports))
              IN  clusterLoop(rs, radiusKm, i + 1,
                              pushCluster(clusters, cluster),
                              markProcessed(found.processed, report.id))

clusterReportsByLocation(rs, radiusKm) == clusterLoop(rs, radiusKm, 1, <<>>, {})

---------------------------------------------------------------------------
(* analyzeCrowdingPattern.  now is the value of Date.now() at line 270.    *)
(* A zone is [center]: <<>> for a zone without center, <<lat>> otherwise.  *)

severityScore(report) ==
    IF report.severity = "high" THEN 3
    ELSE IF report.severity = "medium" THEN 2 ELSE 1

RECURSIVE SumSeverity(_, _)
SumSeverity(rs, i) ==
    IF i > Len(rs) THEN 0 ELSE severityScore(rs[i]) + SumSeverity(rs, i + 1)

\* rs.filter(keep): the subsequence at the positions of keep
RECURSIVE FilterAt(_, _, _)
FilterAt(rs, keep, i) ==
    IF i > Len(rs) THEN <<>>
    ELSE (IF i \in keep THEN <<rs[i]>> ELSE <<>>) \o FilterAt(rs, keep, i + 1)

\* A Map whose counts are incremented twice for a report
hourPatternsTwice(rs) ==
    [h \in {getHours(rs[i].createdAt) : i \in DOMAIN rs} |->
        LET of == FilterAt(rs, {i \in DOMAIN rs : getHours(rs[i].createdAt) = h}, 1)
        IN  [count |-> 2 * Len(of), totalSeverity |-> SumSeverity(of, 1)]]

\* The Map of lines 274-299 for the hours
hourPatternsOf(rs) ==
    [h \in {getHours(rs[i].createdAt) : i \in DOMAIN rs} |->
        LET of == FilterAt(rs, {i \in DOMAIN rs : getHours(rs[i].createdAt) = h}, 1)
        IN  [count |-> Len(of), totalSeverity |-> SumSeverity(of, 1)]]

\* A Map of the days in which every report scores 1
dayPatternsCounting(rs) ==
    [d \in {getDay(rs[i].createdAt) : i \in DOMAIN rs} |->
        LET of == FilterAt(rs, {i \in DOMAIN rs : getDay(rs[i].createdAt) = d}, 1)
        IN  [count |-> Len(of), totalSeverity |-> Len(of)]]

\* The Map of lines 274-299 for the days of the week
dayPatternsOf(rs) ==
    [d \in {getDay(rs[i].createdAt) : i \in DOMAIN rs} |->
        LET of == FilterAt(rs, {i \in DOMAIN rs : getDay(rs[i].createdAt) = d}, 1)
        IN  [count |-> Len(of), totalSeverity |-> SumSeverity(of, 1)]]

\* patterns.get(key) || { count: 0, totalSeverity: 0 }
patternGet(patterns, key) ==
    IF key \in DOMAIN patterns THEN patterns[key]
    ELSE [count |-> 0, totalSeverity |-> 0]

\* The comparison turned around
isRecentFlipped(report, t) == report.createdAt < t - 7 * Day

\* The filter of line 349
isRecent(report, t) == report.createdAt > t - 7 * Day

\* The filter of line 350 without the reports exactly seven days old
isOlderStrict(report, t) == report.createdAt < t - 7 * Day

\* The filter of line 350
isOlder(report, t) == report.createdAt <= t - 7 * Day

\* Lines 348-357
trendOf(rs, t) ==
    LET recentReports == FilterAt(rs, {i \in DOMAIN rs : isRecent(rs[i], t)}, 1)
        olderReports == FilterAt(rs, {i \in DOMAIN rs : isOlder(rs[i], t)}, 1)
    IN  IF QGt(Q(Len(recentReports)), QMul(Q(Len(olderReports)), Rat(12, 10)))
        THEN "increasing"
        ELSE IF QLt(Q(Len(recentReports)), QMul(Q(Len(olderReports)), Rat(8, 10)))
        THEN "decreasing"
        ELSE "stable"

\* The filter with the zones at exactly 1 km left out
nearbyZonesBelow1Km(cluster, zs) ==
    FilterAt(zs, {i \in DOMAIN zs :
                    /\ zs[i].center # <<>>
                    /\ QLt(calculateDistance(cluster.center, zs[i].center[1]), Q(1))}, 1)

\* The filter of lines 324-333
nearbyZonesOf(cluster, zs) ==
    FilterAt(zs, {i \in DOMAIN zs :
                    /\ zs[i].center # <<>>
                    /\ QLe(calculateDistance(cluster.center, zs[i].center[1]), Q(1))}, 1)

\* The data amount taken for the confidence itself
confidenceUnscaled(historicalReports, daysAnalyzed) ==
    MathMin(MathRound(QDiv(Q(historicalReports), Q(daysAnalyzed))), Q(100))

\* Line 360
confidenceOf(historicalReports, daysAnalyzed) ==
    MathMin(MathRound(QMul(QDiv(Q(historicalReports), Q(daysAnalyzed)), Q(10))),
            Q(100))

analyzeCrowdingPattern(cluster, zs, daysAnalyzed, predictionHours, t) ==
    LET rs == cluster.reports
        hourPatterns == hourPatternsOf(rs)
        dayPatterns == dayPatternsOf(rs)
        currentDate == t + predictionHours * Hour
        predictedHour == getHours(currentDate)
        predictedDay == getDay(currentDate)
        hourData == patternGet(hourPatterns, predictedHour)
        dayData == patternGet(dayPatterns, predictedDay)
        historicalReports == Len(rs)
        avgReportsPerDay == QDiv(Q(historicalReports), Q(daysAnalyzed))
        timeOfDayFactor ==
            IF hourData.count > 0
            THEN QMul(QDiv(Q(hourData.count), avgReportsPerDay), Q(100))
            ELSE Q(0)
        dayOfWeekFactor ==
            IF dayData.count > 0
            THEN QMul(QDiv(Q(dayData.count), QDiv(Q(historicalReports), Q(7))), Q(100))
            ELSE Q(0)
        highSeverityCount ==
            Len(FilterAt(rs, {i \in DOMAIN rs : rs[i].severity = "high"}, 1))
        weatherImpact ==
            QMul(QDiv(Q(highSeverityCount), Q(historicalReports)), Q(100))
        nearbyZones == nearbyZonesOf(cluster, zs)
        activeZonesImpact == MathMin(Q(Len(nearbyZones) * 20), Q(100))
        crowdingLevel ==
            MathMin(
                MathRound(
                    QAdd(QMul(timeOfDayFactor, Rat(25, 100)),
                    QAdd(QMul(dayOfWeekFactor, Rat(20, 100)),
                    QAdd(QMul(weatherImpact, Rat(15, 100)),
                    QAdd(QMul(activeZonesImpact, Rat(25, 100)),
                         QMul(MathMin(QMul(avgReportsPerDay, Q(10)), Q(100)),
                              Rat(15, 100))))))),
                Q(100))
    IN  [location |-> cluster.center,
         areaName |-> cluster.name,
         crowdingLevel |-> crowdingLevel,
         confidence |-> confidenceOf(historicalReports, daysAnalyzed),
         trend |-> trendOf(rs, t),
         predictedFor |-> t + predictionHours * Hour,
         basedOnDays |-> daysAnalyzed,
         factors |->
            [historicalReports |->
                QDiv(MathRound(QMul(avgReportsPerDay, Q(10))), Q(10)),
             timeOfDay |-> MathRound(timeOfDayFactor),
             dayOfWeek |-> MathRound(dayOfWeekFactor),
             weatherImpact |-> MathRound(weatherImpact),
             activeZones |-> Len(nearbyZones)]]

---------------------------------------------------------------------------
(* The query operations' synchronous parts *)

\* A query without the filter: every stored report
createdSinceAll(rs, startTime) == rs

\* find({ createdAt: { $gte: startTime } }).toArray() of lines 185-187, 393-396
createdSince(rs, startTime) ==
    FilterAt(rs, {i \in DOMAIN rs : rs[i].createdAt >= startTime}, 1)

\* A test that also looks at a flag left behind by a forecast that has
\* returned: nothing is significant once a result is out
isSignificantUntilReturned(prediction) ==
    /\ QGt(prediction.crowdingLevel, Q(20))
    /\ \A c \in DOMAIN calls : calls[c].pc # "done"

\* Line 205: only significant predictions are included
isSignificant(prediction) == QGt(prediction.crowdingLevel, Q(20))

\* Insertion before the equals: equal entries come out in reverse order
RECURSIVE insertSortedBeforeEquals(_, _)
insertSortedBeforeEquals(sorted, p) ==
    IF sorted = <<>> THEN <<p>>
    ELSE IF ~QLt(p.crowdingLevel, sorted[1].crowdingLevel)
    THEN <<p>> \o sorted
    ELSE <<sorted[1]>> \o insertSortedBeforeEquals(Tail(sorted), p)

\* Insertion of p into a list sorted by the comparator of line 210,
\* (a, b) => b.crowdingLevel - a.crowdingLevel, after its equals (stable)
RECURSIVE insertSorted(_, _)
insertSorted(sorted, p) ==
    IF sorted = <<>> THEN <<p>>
    ELSE IF QGt(p.crowdingLevel, sorted[1].crowdingLevel)
    THEN <<p>> \o sorted
    ELSE <<sorted[1]>> \o insertSorted(Tail(sorted), p)

RECURSIVE sortFrom(_, _, _)
sortFrom(ps, i, sorted) ==
    IF i > Len(ps) THEN sorted ELSE sortFrom(ps, i + 1, insertSorted(sorted, ps[i]))

\* The list left as pushed
sortNot(ps) == ps

\* predictions.sort(...) of line 210
sortPredictions(ps) == sortFrom(ps, 1, <<>>)

\* The bucket of one hour, lines 410-424
hourBucket(nearbyReports, hour, daysToAnalyze) ==
    LET hourReports ==
            FilterAt(nearbyReports,
                     {i \in DOMAIN nearbyReports :
                        getHours(nearbyReports[i].createdAt) = hour}, 1)
        avgSeverity ==
            IF Len(hourReports) > 0
            THEN QDiv(Q(SumSeverity(hourReports, 1)), Q(Len(hourReports)))
            ELSE Q(0)
    IN  [hour |-> hour,
         crowdingLevel |->
            MathMin(MathRound(QMul(avgSeverity, Rat(3333, 100))), Q(100)),
         confidence |->
            MathMin(MathRound(QMul(QDiv(Q(Len(hourReports)),
                                        QDiv(Q(daysToAnalyze), Q(24))),
                                   Q(100))),
                    Q(100))]

\* An array of the hours 1..24
hourlyDataFrom1(nearbyReports, daysToAnalyze) ==
    [k \in 1..24 |-> hourBucket(nearbyReports, k, daysToAnalyze)]

\* new Array(24).fill(0).map((_, hour) => ...) of lines 409-425
hourlyDataOf(nearbyReports, daysToAnalyze) ==
    [k \in 1..24 |-> hourBucket(nearbyReports, k - 1, daysToAnalyze)]

\* The profile over all fetched reports, near the location or not
hourlyPredictionsOfAll(rs, location, radiusKm, daysToAnalyze) ==
    hourlyDataOf(rs, daysToAnalyze)

\* Lines 398-427, on the fetched reports
hourlyPredictions(rs, location, radiusKm, daysToAnalyze) ==
    LET nearbyReports ==
            FilterAt(rs, {i \in DOMAIN rs :
                            QLe(calculateDistance(location, rs[i].location),
                                radiusKm)}, 1)
    IN  hourlyDataOf(nearbyReports, daysToAnalyze)

\* The test without the comparison to the least distance so far
isCloserAny(distance, radiusKm, minDistance) == QLe(distance, radiusKm)

\* The test with <= in place of <: among equally near ones the last wins
isCloserOrEqual(distance, radiusKm, minDistance) ==
    QLe(distance, radiusKm) /\ QLe(distance, minDistance)

\* The test of line 453
isCloser(distance, radiusKm, minDistance) ==
    QLe(distance, radiusKm) /\ QLt(distance, minDistance)

\* The loop of lines 446-457, from position i on; closest is <<>> for null
RECURSIVE closestFrom(_, _, _, _, _, _)
closestFrom(ps, location, radiusKm, i, closest, minDistance) ==
    IF i > Len(ps) THEN closest
    ELSE LET distance == calculateDistance(location, ps[i].location) IN
         IF isCloser(distance, radiusKm, minDistance)
         THEN closestFrom(ps, location, radiusKm, i + 1, <<ps[i]>>, distance)
         ELSE closestFrom(ps, location, radiusKm, i + 1, closest, minDistance)

closestPrediction(ps, location, radiusKm) ==
    closestFrom(ps, location, radiusKm, 1, <<>>, Infinity)

\* Line 440: Math.round((targetTime.getTime() - Date.now()) / (1000 * 60 * 60))
horizonOf(targetTime, t) == MathRound(QDiv(Q(targetTime - t), Q(Hour))).n

---------------------------------------------------------------------------
(* The stored data and the calls' parameters, bounded *)

MaxReports == 2

MaxZones == 1

MaxTicks == 1

\* The clock at the start: a Friday, 18:00
Now0 == 15 * Day + 18 * Hour

\* thousandths of a degree: 0.004 degree is 0.44 km, 0.008 degree 0.89 km
Lats == {0, 4, 8}

Severities == {"low", "medium", "high"}

\* exactly seven days before Now0 (a Friday, 18:00), and a day after Now0
\* (a Saturday, 18:00): a report stamped by a clock ahead of the engine's
CreatedAts == {Now0 - 7 * Day, Now0 + Day}

\* no center, or one 0.44 km south of latitude 0 and 1.33 km south of 0.008
ZoneCenters == {<<>>, <<Q(-4)>>}

DaysParams == {-1, 0, 2, 8}

HoursParams == {0, 5}

HourlyLocations == {Q(4), NaN}

HourlyRadii == {Q(1), Q(0)}

PointLocations == {Q(2), Q(4)}

PointRadii == {Q(1), Rat(1, 2)}

TargetParams == {Now0 + 1}

ReportsAt(ids) ==
    {[id |-> i, location |-> Q(lat), severity |-> s, createdAt |-> t] :
        i \in ids, lat \in Lats, s \in Severities, t \in CreatedAts}

\* The sequences of at most max reports; the report at position i has id i
StoredReports(max) ==
    UNION {{rs \in [1..k -> ReportsAt(1..k)] : \A i \in 1..k : rs[i].id = i} :
              k \in 0..max}

StoredZones(max) ==
    UNION {[1..k -> {[center |-> z] : z \in ZoneCenters}] : k \in 0..max}

Callers == {1}

\* The query string of a request without parameters: searchParams.get
\* gives null (<<>>) for each
NoRequest ==
    [type |-> <<>>, days |-> <<>>, hours |-> <<>>,
     lat |-> <<>>, lng |-> <<>>, time |-> <<>>, radius |-> <<>>]

\* A call not made yet
Idle ==
    [op |-> "none", pc |-> "idle",
     daysToAnalyze |-> 0, predictionHours |-> 0,
     location |-> NaN, radiusKm |-> NaN, targetTime |-> 0,
     calledAt |-> 0,          \* history: the clock read at line 440
     startTime |-> 0,
     reports |-> <<>>, zones |-> <<>>,
     locationClusters |-> <<>>, next |-> 1,
     analyzed |-> <<>>,       \* history: every prediction the loop was given
     predictions |-> <<>>,
     hourlyData |-> <<>>,
     closest |-> <<>>,
     again |-> <<>>,          \* the clusters of a second clustering of the same input
     request |-> NoRequest,   \* the query string the route handler was given
     thrown |-> FALSE,        \* history: an await of the engine has rejected
     status |-> 0]            \* the status of the response, 0 while there is none

Init ==
    /\ reports \in StoredReports(MaxReports)
    /\ zones \in StoredZones(MaxZones)
    /\ now = Now0
    /\ ticks = 0
    /\ calls = [c \in Callers |-> Idle]

---------------------------------------------------------------------------
(* The steps of the calls.  A call is suspended at each await. *)

\* generateCrowdingPredictions(daysToAnalyze, predictionHours) is called
CallGeneral(c, days, hours) ==
    /\ calls[c].pc = "idle"
    /\ calls' = [calls EXCEPT ![c] =
            [Idle EXCEPT !.op = "general", !.pc = "db",
                         !.daysToAnalyze = days, !.predictionHours = hours]]
    /\ UNCHANGED <<reports, zones, now, ticks>>

\* getHourlyPredictions(location, radiusKm, daysToAnalyze) is called
CallHourly(c, location, radiusKm, days) ==
    /\ calls[c].pc = "idle"
    /\ calls' = [calls EXCEPT ![c] =
            [Idle EXCEPT !.op = "hourly", !.pc = "db",
                         !.location = location, !.radiusKm = radiusKm,
                         !.daysToAnalyze = days]]
    /\ UNCHANGED <<reports, zones, now, ticks>>

\* getPredictionForTime(location, targetTime, radiusKm, daysToAnalyze) is
\* called: it calls generateCrowdingPredictions with the horizon of line 440
CallSpecific(c, location, targetTime, radiusKm, days) ==
    /\ calls[c].pc = "idle"
    /\ calls' = [calls EXCEPT ![c] =
            [Idle EXCEPT !.op = "specific", !.pc = "db", !.calledAt = now,
                         !.location = location, !.radiusKm = radiusKm,
                         !.targetTime = targetTime,
                         !.daysToAnalyze = days,
                         !.predictionHours = horizonOf(targetTime, now)]]
    /\ UNCHANGED <<reports, zones, now, ticks>>

\* After await getDatabase(): lines 180-181 and 389-390
ReadClock(c) ==
    /\ calls[c].pc = "db"
    /\ calls' = [calls EXCEPT ![c].pc = "fetch",
                              ![c].startTime = now - calls[c].daysToAnalyze * Day]
    /\ UNCHANGED <<reports, zones, now, ticks>>

\* The clusters kept in one array that all calls share: a call that is
\* scoring goes on with the clusters of the call that fetched last
FetchAndClusterShared(c) ==
    /\ calls[c].pc = "fetch"
    /\ calls[c].op \in {"general", "specific"}
    /\ LET fetched == createdSince(reports, calls[c].startTime)
           clusters == clusterReportsByLocation(fetched, Rat(1, 2))
       IN  calls' = [d \in DOMAIN calls |->
                IF d = c
                THEN [calls[c] EXCEPT !.pc = "score", !.reports = fetched,
                                      !.zones = zones,
                                      !.locationClusters = clusters,
                                      !.next = 1, !.predictions = <<>>]
                ELSE IF calls[d].pc = "score"
                THEN [calls[d] EXCEPT !.locationClusters = clusters]
                ELSE calls[d]]
    /\ UNCHANGED <<reports, zones, now, ticks>>

\* Lines 184-196: the two collections are read and the reports clustered
FetchAndCluster(c) ==
    /\ calls[c].pc = "fetch"
    /\ calls[c].op \in {"general", "specific"}
    /\ LET fetched == createdSince(reports, calls[c].startTime)
       IN  calls' = [calls EXCEPT
                ![c].pc = "score",
                ![c].reports = fetched,
                ![c].zones = zones,
                ![c].locationClusters = clusterReportsByLocation(fetched, Rat(1, 2)),
                ![c].next = 1,
                ![c].predictions = <<>>]
    /\ UNCHANGED <<reports, zones, now, ticks>>

\* Lines 198-208: one round of the loop
Analyze(c) ==
    /\ calls[c].pc = "score"
    /\ calls[c].next <= Len(calls[c].locationClusters)
    /\ LET prediction ==
               analyzeCrowdingPattern(calls[c].locationClusters[calls[c].next],
                                      calls[c].zones, calls[c].daysToAnalyze,
                                      calls[c].predictionHours, now)
       IN  calls' = [calls EXCEPT
                ![c].next = @ + 1,
                ![c].analyzed = Append(@, prediction),
                ![c].predictions =
                    IF isSignificant(prediction) THEN Append(@, prediction) ELSE @]
    /\ UNCHANGED <<reports, zones, now, ticks>>

\* Line 210, and for getPredictionForTime lines 442-459
Return(c) ==
    /\ calls[c].pc = "score"
    /\ calls[c].next > Len(calls[c].locationClusters)
    /\ LET sorted == sortPredictions(calls[c].predictions)
       IN  calls' = [calls EXCEPT
                ![c].pc = "done",
                ![c].predictions = sorted,
                ![c].closest =
                    IF calls[c].op = "specific"
                    THEN closestPrediction(sorted, calls[c].location,
                                           calls[c].radiusKm)
                    ELSE <<>>]
    /\ UNCHANGED <<reports, zones, now, ticks>>

\* Lines 393-427
FetchHourly(c) ==
    /\ calls[c].pc = "fetch"
    /\ calls[c].op = "hourly"
    /\ LET fetched == createdSince(reports, calls[c].startTime)
       IN  calls' = [calls EXCEPT
                ![c].pc = "done",
                ![c].reports = fetched,
                ![c].hourlyData =
                    hourlyPredictions(fetched, calls[c].location,
                                      calls[c].radiusKm, calls[c].daysToAnalyze)]
    /\ UNCHANGED <<reports, zones, now, ticks>>

\* The caller has taken the result
Taken(c) ==
    /\ calls[c].pc = "done"
    /\ calls' = [calls EXCEPT ![c] = Idle]
    /\ UNCHANGED <<reports, zones, now, ticks>>

\* The wall clock advances
Tick ==
    /\ ticks < MaxTicks
    /\ now' = now + 1
    /\ ticks' = ticks + 1
    /\ UNCHANGED <<reports, zones, calls>>

\* The general forecast alone
NextGeneral ==
    \/ \E c \in Callers, days \in DaysParams, hours \in HoursParams :
          CallGeneral(c, days, hours)
    \/ \E c \in Callers : ReadClock(c)
    \/ \E c \in Callers : FetchAndCluster(c)
    \/ \E c \in Callers : Analyze(c)
    \/ \E c \in Callers : Return(c)
    \/ \E c \in Callers : Taken(c)
    \/ Tick

\* The hourly profile alone
NextHourly ==
    \/ \E c \in Callers, location \in HourlyLocations, radiusKm \in HourlyRadii,
          days \in DaysParams :
          CallHourly(c, location, radiusKm, days)
    \/ \E c \in Callers : ReadClock(c)
    \/ \E c \in Callers : FetchHourly(c)
    \/ \E c \in Callers : Taken(c)
    \/ Tick

\* The point-in-time lookup alone
NextPoint ==
    \/ \E c \in Callers, location \in PointLocations, targetTime \in TargetParams,
          radiusKm \in PointRadii, days \in DaysParams :
          CallSpecific(c, location, targetTime, radiusKm, days)
    \/ \E c \in Callers : ReadClock(c)
    \/ \E c \in Callers : FetchAndCluster(c)
    \/ \E c \in Callers : Analyze(c)
    \/ \E c \in Callers : Return(c)
    \/ \E c \in Callers : Taken(c)
    \/ Tick

Next == NextGeneral \/ NextHourly \/ NextPoint

\* The three query operations, called one after another in any order
Spec == Init /\ [][Next]_vars

SpecGeneral == Init /\ [][NextGeneral]_vars

SpecHourly == Init /\ [][NextHourly]_vars

SpecPoint == Init /\ [][NextPoint]_vars

---------------------------------------------------------------------------
(* clusterReportsByLocation on its own: any sequence of reports along the  *)
(* meridian, any radius                                                    *)

MaxClusterInput == 3

ClusterLats == {0, 4, 8, 12}

\* 0 km, 0.45 km, the 0.5 km of the general forecast, 1 km
ClusterRadii == {Q(0), Rat(45, 100), Rat(1, 2), Q(1)}

ClusterInputs ==
    UNION {{rs \in [1..k -> {[id |-> i, location |-> Q(lat), severity |-> "low",
                              createdAt |-> Now0] :
                                i \in 1..k, lat \in ClusterLats}] :
                \A i \in 1..k : rs[i].id = i} : k \in 0..MaxClusterInput}

InitCluster ==
    /\ reports \in ClusterInputs
    /\ zones = <<>>
    /\ now = Now0
    /\ ticks = 0
    /\ calls = [c \in Callers |-> Idle]

\* clusterReportsByLocation(reports, radiusKm)
Cluster(c, radiusKm) ==
    /\ calls[c].pc = "idle"
    /\ calls' = [calls EXCEPT ![c] =
            [Idle EXCEPT !.op = "cluster", !.pc = "done", !.radiusKm = radiusKm,
                         !.reports = reports,
                         !.locationClusters =
                             clusterReportsByLocation(reports, radiusKm)]]
    /\ UNCHANGED <<reports, zones, now, ticks>>

\* clusterReportsByLocation once more, on the same sequence and radius
ClusterAgain(c) ==
    /\ calls[c].op = "cluster"
    /\ calls[c].pc = "done"
    /\ calls' = [calls EXCEPT
            ![c].pc = "twice",
            ![c].again = clusterReportsByLocation(reports, calls[c].radiusKm)]
    /\ UNCHANGED <<reports, zones, now, ticks>>

NextCluster ==
    \/ \E c \in Callers, radiusKm \in ClusterRadii : Cluster(c, radiusKm)
    \/ \E c \in Callers : ClusterAgain(c)

SpecCluster == InitCluster /\ [][NextCluster]_vars

---------------------------------------------------------------------------
(* The general forecast over one cluster and up to MaxZoneList zones: the  *)
(* cluster is one report at latitude 0, or two reports at -0.002 and 0.002 *)
(* degree with the centroid at latitude 0 and the seed 0.22 km south of it *)

MaxZoneList == 6

\* The latitude exactly 1 km north of latitude 0
OneKmNorth == QInv(KmPerMilliDegree)

\* no center; 0.44 km south of latitude 0; exactly 1 km north of it, 1.22 km
\* from the seed at -0.002; 1.11 km north of it
ZoneListCenters == {<<>>, <<Q(-4)>>, <<OneKmNorth>>, <<Q(10)>>}

ZoneLists ==
    UNION {[1..k -> {[center |-> z] : z \in ZoneListCenters}] : k \in 0..MaxZoneList}

\* Reports of low severity of the Thursday before Now0, 18:00
ZoneReports ==
    {<<[id |-> 1, location |-> Q(0), severity |-> "low", createdAt |-> Now0 - Day]>>,
     <<[id |-> 1, location |-> Q(-2), severity |-> "low", createdAt |-> Now0 - Day],
       [id |-> 2, location |-> Q(2), severity |-> "low", createdAt |-> Now0 - Day]>>}

InitZones ==
    /\ reports \in ZoneReports
    /\ zones \in ZoneLists
    /\ now = Now0
    /\ ticks = 0
    /\ calls = [c \in Callers |-> Idle]

NextZones ==
    \/ \E c \in Callers : CallGeneral(c, 30, 5)
    \/ \E c \in Callers : ReadClock(c)
    \/ \E c \in Callers : FetchAndCluster(c)
    \/ \E c \in Callers : Analyze(c)
    \/ \E c \in Callers : Return(c)
    \/ \E c \in Callers : Taken(c)
    \/ Tick

SpecZones == InitZones /\ [][NextZones]_vars

---------------------------------------------------------------------------
(* Two clients call the three query operations at the same time, over      *)
(* stored data that does not change.  A call is suspended at its awaits,   *)
(* where the steps of the other client's call come in between.             *)

Clients == {1, 2}

\* nothing stored; a report seven days old and one of a day ahead, 0.89 km
\* apart (two clusters); two reports seven days old, 0.44 km apart (one)
ConcurrentReports ==
    {<<>>,
     <<[id |-> 1, location |-> Q(0), severity |-> "high", createdAt |-> Now0 - 7 * Day],
       [id |-> 2, location |-> Q(8), severity |-> "high", createdAt |-> Now0 + Day]>>,
     <<[id |-> 1, location |-> Q(0), severity |-> "high", createdAt |-> Now0 - 7 * Day],
       [id |-> 2, location |-> Q(4), severity |-> "low", createdAt |-> Now0 - 7 * Day]>>}

ConcurrentZones == {<<>>, <<[center |-> <<Q(-4)>>]>>}

\* the seven days old reports are outside the window of 2 days, inside
\* that of 8 days
ConcurrentDays == {2, 8}

InitConcurrent ==
    /\ reports \in ConcurrentReports
    /\ zones \in ConcurrentZones
    /\ now = Now0
    /\ ticks = 0
    /\ calls = [c \in Clients |-> Idle]

NextConcurrent ==
    \/ \E c \in Clients, days \in ConcurrentDays : CallGeneral(c, days, 0)
    \/ \E c \in Clients, days \in ConcurrentDays : CallHourly(c, Q(4), Q(1), days)
    \/ \E c \in Clients, targetTime \in TargetParams :
          CallSpecific(c, Q(4), targetTime, Q(1), 8)
    \/ \E c \in Clients : ReadClock(c)
    \/ \E c \in Clients : FetchAndCluster(c)
    \/ \E c \in Clients : Analyze(c)
    \/ \E c \in Clients : Return(c)
    \/ \E c \in Clients : FetchHourly(c)
    \/ \E c \in Clients : Taken(c)
    \/ Tick

SpecConcurrent == InitConcurrent /\ [][NextConcurrent]_vars

---------------------------------------------------------------------------
(* The route handler GET /api/predictions.  A parameter's text is a
   sequence of characters; the type's text is compared whole and is kept
   as a string.  The engine's locations are latitudes in thousandths of a
   degree on one meridian: the request's lng is parsed and tested, and the
   stored reports are taken to lie on its meridian. *)

Digits == {"0", "1", "2", "3", "4", "5", "6", "7", "8", "9"}

digitOf(ch) ==
    CASE ch = "0" -> 0 [] ch = "1" -> 1 [] ch = "2" -> 2 [] ch = "3" -> 3
      [] ch = "4" -> 4 [] ch = "5" -> 5 [] ch = "6" -> 6 [] ch = "7" -> 7
      [] ch = "8" -> 8 [] ch = "9" -> 9

\* The first position from i on that holds no white space
RECURSIVE skipWhiteSpace(_, _)
skipWhiteSpace(text, i) ==
    IF i <= Len(text) /\ text[i] = " " THEN skipWhiteSpace(text, i + 1) ELSE i

\* How many digits follow one another from position i on
RECURSIVE digitsFrom(_, _)
digitsFrom(text, i) ==
    IF i <= Len(text) /\ text[i] \in Digits THEN 1 + digitsFrom(text, i + 1) ELSE 0

\* The number written by the k digits from position i on, after acc
RECURSIVE valueOfDigits(_, _, _, _)
valueOfDigits(text, i, k, acc) ==
    IF k = 0 THEN acc
    ELSE valueOfDigits(text, i + 1, k - 1, 10 * acc + digitOf(text[i]))

RECURSIVE PowerOf10(_)
PowerOf10(k) == IF k = 0 THEN 1 ELSE 10 * PowerOf10(k - 1)

\* The sign at position i: its factor and the position after it
signAt(text, i) ==
    IF i <= Len(text) /\ text[i] = "-" THEN [factor |-> -1, next |-> i + 1]
    ELSE IF i <= Len(text) /\ text[i] = "+" THEN [factor |-> 1, next |-> i + 1]
    ELSE [factor |-> 1, next |-> i]

\* parseInt(text): white space, a sign, the longest run of decimal digits;
\* NaN when there is no digit.  What follows the digits is ignored.
parseInt(text) ==
    LET sign == signAt(text, skipWhiteSpace(text, 1))
        k == digitsFrom(text, sign.next)
    IN  IF k = 0 THEN NaN
        ELSE Q(sign.factor * valueOfDigits(text, sign.next, k, 0))

\* parseFloat(text): white space, a sign, digits, a point, digits; NaN when
\* there is no digit.  What follows the number is ignored.
parseFloat(text) ==
    LET sign == signAt(text, skipWhiteSpace(text, 1))
        k == digitsFrom(text, sign.next)
        point == sign.next + k
        m == IF point <= Len(text) /\ text[point] = "."
             THEN digitsFrom(text, point + 1) ELSE 0
    IN  IF k + m = 0 THEN NaN
        ELSE Rat(sign.factor *
                   (valueOfDigits(text, sign.next, k, 0) * PowerOf10(m)
                      + valueOfDigits(text, point + 1, m, 0)),
                 PowerOf10(m))

\* searchParams.get(name) || fallback: null and the empty text give the
\* fallback
orDefault(param, fallback) ==
    IF param = <<>> THEN fallback
    ELSE IF param[1] = <<>> THEN fallback
    ELSE param[1]

\* Line 28: searchParams.get('type') || 'general'
typeOf(request) ==
    IF request.type = <<>> THEN "general"
    ELSE IF request.type[1] = "" THEN "general"
    ELSE request.type[1]

\* !x of a number: 0 and NaN are falsy
isFalsy(x) == IsNaN(x) \/ x = Q(0)

\* A test that looks at lat only
isMissingLat(lat, lng) == isFalsy(lat)

\* Line 49, and the first two operands of line 72: !lat || !lng
isMissing(lat, lng) == isFalsy(lat) \/ isFalsy(lng)

\* Line 72: !lat || !lng || !targetTime
isMissingSpecific(lat, lng, targetTime) ==
    isMissing(lat, lng) \/ isFalsy(targetTime)

\* Degrees as thousandths of a degree
toMilliDegrees(lat) == QMul(lat, Q(1000))

\* Lines 51-54, 74-77 and 99-102: the response with status 400
badRequest(call) == [call EXCEPT !.pc = "responded", !.status = 400]

\* Lines 27-84 and 99-102: the handler up to its first await, or to the
\* response it gives without calling the engine
GET(c, request) ==
    /\ calls[c].pc = "idle"
    /\ LET type == typeOf(request)
           daysToAnalyze == parseInt(orDefault(request.days, <<"3", "0">>))
           predictionHours == parseInt(orDefault(request.hours, <<"2", "4">>))
           lat == parseFloat(orDefault(request.lat, <<"0">>))
           lng == parseFloat(orDefault(request.lng, <<"0">>))
           radius == parseFloat(orDefault(request.radius, <<"1">>))
           targetTime == parseInt(orDefault(request.time, <<"0">>))
           received == [Idle EXCEPT !.request = request]
       IN  calls' = [calls EXCEPT ![c] =
               IF type = "general"
               THEN [received EXCEPT !.op = "general", !.pc = "db",
                                     !.daysToAnalyze = daysToAnalyze.n,
                                     !.predictionHours = predictionHours.n]
               ELSE IF type = "hourly"
               THEN IF isMissing(lat, lng) THEN badRequest(received)
                    ELSE [received EXCEPT !.op = "hourly", !.pc = "db",
                                          !.location = toMilliDegrees(lat),
                                          !.radiusKm = radius,
                                          !.daysToAnalyze = daysToAnalyze.n]
               ELSE IF type = "specific"
               THEN IF isMissingSpecific(lat, lng, targetTime)
                    THEN badRequest(received)
                    ELSE [received EXCEPT !.op = "specific", !.pc = "db",
                                          !.calledAt = now,
                                          !.location = toMilliDegrees(lat),
                                          !.radiusKm = radius,
                                          !.targetTime = targetTime.n,
                                          !.daysToAnalyze = daysToAnalyze.n,
                                          !.predictionHours =
                                              horizonOf(targetTime.n, now)]
               ELSE badRequest(received)]
    /\ UNCHANGED <<reports, zones, now, ticks>>

\* An await of the engine rejects (getDatabase, or a find of lines 185-190
\* and 393-396), the error reaches the catch of lines 103-108
Throws(c) ==
    /\ calls[c].pc \in {"db", "fetch"}
    /\ calls' = [calls EXCEPT ![c].pc = "responded",
                              ![c].thrown = TRUE,
                              ![c].status = 500]
    /\ UNCHANGED <<reports, zones, now, ticks>>

\* Lines 35-40, 57-62 and 86-96: the engine has returned
Respond(c) ==
    /\ calls[c].pc = "done"
    /\ calls' = [calls EXCEPT
            ![c].pc = "responded",
            ![c].status = IF calls[c].op = "specific" /\ calls[c].closest = <<>>
                          THEN 404 ELSE 200]
    /\ UNCHANGED <<reports, zones, now, ticks>>

\* The response is out
Sent(c) ==
    /\ calls[c].pc = "responded"
    /\ calls' = [calls EXCEPT ![c] = Idle]
    /\ UNCHANGED <<reports, zones, now, ticks>>

\* The query strings: a parameter left out, empty, or with the text given
RouteTypes == {<<>>, <<"">>, <<"general">>, <<"hourly">>, <<"specific">>, <<"daily">>}

\* 0.004 degree north; "0", "0.0" and "-0" parse to 0, "abc" to NaN
RouteLats ==
    {<<>>, <<<<>>>>, <<<<"0">>>>, <<<<"-", "0", ".", "0">>>>, <<<<"a", "b", "c">>>>,
     <<<<"0", ".", "0", "0", "4">>>>}

RouteLngs == {<<>>, <<<<"0">>>>, <<<<"x">>>>, <<<<"1", "0", "5", ".", "8">>>>}

\* half an hour after Now0
RouteTimes == {<<>>, <<<<"0">>>>, <<<<"n", "o", "w">>>>, <<<<"7", "5", "7">>>>}

RouteRadii == {<<>>, <<<<"0", ".", "5">>>>}

RouteDays == {<<>>, <<<<"8">>>>}

RouteHours == {<<>>, <<<<"0">>>>}

Absent == {<<>>}

RequestsWith(types, days, hours, lats, lngs, times, radii) ==
    [type : types, days : days, hours : hours,
     lat : lats, lng : lngs, time : times, radius : radii]

\* The requests drawn: each type with every text of the parameters its
\* branch reads, the other parameters left out; a type the handler does
\* not know with and without the parameters of a point lookup
Requests ==
    RequestsWith(RouteTypes \ {<<"hourly">>, <<"specific">>, <<"daily">>},
                 RouteDays, RouteHours, Absent, Absent, Absent, Absent)
    \cup RequestsWith({<<"hourly">>},
                      RouteDays, Absent, RouteLats, RouteLngs, Absent, RouteRadii)
    \cup RequestsWith({<<"specific">>},
                      RouteDays, Absent, RouteLats, RouteLngs, RouteTimes, RouteRadii)
    \cup RequestsWith({<<"daily">>},
                      Absent, Absent, RouteLats, RouteLngs, RouteTimes, Absent)

InitRoute ==
    /\ reports \in StoredReports(1)
    /\ zones = <<>>
    /\ now = Now0
    /\ ticks = 0
    /\ calls = [c \in Callers |-> Idle]

NextRoute ==
    \/ \E c \in Callers, request \in Requests : GET(c, request)
    \/ \E c \in Callers : ReadClock(c)
    \/ \E c \in Callers : FetchAndCluster(c)
    \/ \E c \in Callers : Analyze(c)
    \/ \E c \in Callers : Return(c)
    \/ \E c \in Callers : FetchHourly(c)
    \/ \E c \in Callers : Throws(c)
    \/ \E c \in Callers : Respond(c)
    \/ \E c \in Callers : Sent(c)
    \/ Tick

\* Requests to the predictions route, one after another
SpecRoute == InitRoute /\ [][NextRoute]_vars

---------------------------------------------------------------------------
(* Properties of clusterReportsByLocation, under SpecCluster *)

ClusterCalls == {c \in Callers : calls[c].op = "cluster"}

\* The position in the input of a cluster's seed, its first member
SeedPosition(rs, cluster) ==
    CHOOSE i \in DOMAIN rs : rs[i].id = cluster.reports[1].id

IsChainABC(rs, radiusKm) ==
    /\ Len(rs) = 3
    /\ QLe(calculateDistance(rs[1].location, rs[2].location), radiusKm)
    /\ QLe(calculateDistance(rs[2].location, rs[3].location), radiusKm)
    /\ QGt(calculateDistance(rs[1].location, rs[3].location), radiusKm)

\* C4 as claimed: clustering [A, B, C] yields the one cluster {A, B, C}.
C4_OneClusterABC ==
    \A c \in ClusterCalls :
        IsChainABC(reports, calls[c].radiusKm) =>
            /\ Len(calls[c].locationClusters) = 1
            /\ calls[c].locationClusters[1].reports = reports

\* C4 amended: clustering [A, B, C] yields two clusters, in this order:
\* A's with the members A, B and the mean of the two as centroid, then C's
\* with C alone. C is tested against the seed A only, which is too far.
C4_TwoClustersAB_C ==
    \A c \in ClusterCalls :
        IsChainABC(reports, calls[c].radiusKm) =>
            /\ Len(calls[c].locationClusters) = 2
            /\ calls[c].locationClusters[1].reports = <<reports[1], reports[2]>>
            /\ calls[c].locationClusters[1].center =
                  QDiv(QAdd(reports[1].location, reports[2].location), Q(2))
            /\ calls[c].locationClusters[2].reports = <<reports[3]>>
            /\ calls[c].locationClusters[2].center = reports[3].location

\* The example of the specification: A = 0, B = 0.004, C = 0.008 degree of
\* latitude, clustered with a radius of 0.45 km
C4_Witness ==
    \E c \in ClusterCalls :
        /\ calls[c].radiusKm = Rat(45, 100)
        /\ IsChainABC(reports, calls[c].radiusKm)
        /\ reports[1].location = Q(0)
        /\ reports[2].location = Q(4)
        /\ reports[3].location = Q(8)

\* The positions of the clusters that have the report of this id as a member
ClustersOf(clusters, id) ==
    {i \in DOMAIN clusters :
        \E k \in DOMAIN clusters[i].reports : clusters[i].reports[k].id = id}

\* C14: the clusters returned for a sequence of reports with distinct ids
\* are a partition of the input: every cluster has at least one member,
\* every input report is a member of exactly one cluster and occurs there
\* once, and every member is an input report.
C14_ClustersPartitionTheInput ==
    \A c \in ClusterCalls :
        LET cl == calls[c].locationClusters IN
        /\ \A i \in DOMAIN cl : Len(cl[i].reports) >= 1
        /\ \A r \in DOMAIN reports :
              /\ Cardinality(ClustersOf(cl, reports[r].id)) = 1
              /\ \A i \in ClustersOf(cl, reports[r].id) :
                    Cardinality({k \in DOMAIN cl[i].reports :
                                    cl[i].reports[k] = reports[r]}) = 1
        /\ \A i \in DOMAIN cl : \A k \in DOMAIN cl[i].reports :
              \E r \in DOMAIN reports : reports[r] = cl[i].reports[k]

\* Three reports clustered into a cluster of two, seeded by the first, and
\* a cluster of one: the second cluster's seed met a processed report
C14_Witness ==
    \E c \in ClusterCalls :
        /\ Len(reports) = 3
        /\ Len(calls[c].locationClusters) = 2
        /\ Len(calls[c].locationClusters[1].reports) = 2
        /\ calls[c].locationClusters[1].reports[2] = reports[3]
        /\ calls[c].locationClusters[2].reports = <<reports[2]>>
        /\ QLe(calculateDistance(reports[2].location, reports[3].location),
               calls[c].radiusKm)

\* C15: in every returned cluster the first member is the seed (the report
\* the cluster is named after, at whose turn in the input the cluster was
\* started) and every other member is within radiusKm of the seed's own
\* location; that is the only test, so every unprocessed report within
\* radiusKm of the seed is a member, however far from the centroid or from
\* another member it is.
C15_MembersWithinRadiusOfSeed ==
    \A c \in ClusterCalls :
        LET cl == calls[c].locationClusters IN
        \A i \in DOMAIN cl :
            LET seed == cl[i].reports[1] IN
            /\ cl[i].name = seed.id
            /\ \A k \in DOMAIN cl[i].reports :
                  /\ QLe(calculateDistance(seed.location, cl[i].reports[k].location),
                         calls[c].radiusKm)
                  /\ k > 1 => SeedPosition(reports, cl[i]) #
                                 CHOOSE r \in DOMAIN reports : reports[r] = cl[i].reports[k]
            /\ \A r \in DOMAIN reports :
                  (/\ QLe(calculateDistance(seed.location, reports[r].location),
                          calls[c].radiusKm)
                   /\ \A h \in 1..(i - 1) : h \notin ClustersOf(cl, reports[r].id))
                  => i \in ClustersOf(cl, reports[r].id)

\* A cluster with two members farther than radiusKm from one another, its
\* seed between them
C15_Witness ==
    \E c \in ClusterCalls : \E i \in DOMAIN calls[c].locationClusters :
        LET cluster == calls[c].locationClusters[i] IN
        /\ Len(cluster.reports) = 3
        /\ QGt(calculateDistance(cluster.reports[2].location,
                                 cluster.reports[3].location), calls[c].radiusKm)

\* The sum of the latitudes of the first n of the reports
RECURSIVE SumOfLatitudes(_, _)
SumOfLatitudes(rs, n) ==
    IF n = 0 THEN Q(0) ELSE QAdd(SumOfLatitudes(rs, n - 1), rs[n].location)

\* C23: the center of every returned cluster is the arithmetic mean of the
\* coordinates of all its members, the seed included (on the meridian of
\* the model: of their latitudes, the longitude being the same for all);
\* the members of every cluster, this center set or not, are its seed and
\* exactly the reports not in an earlier cluster that are within radiusKm
\* of the seed's location.
C23_CenterIsMeanOfMembers ==
    \A c \in ClusterCalls :
        LET cl == calls[c].locationClusters IN
        \A i \in DOMAIN cl :
            LET members == cl[i].reports IN
            /\ cl[i].center = QDiv(SumOfLatitudes(members, Len(members)),
                                   Q(Len(members)))
            /\ \A r \in DOMAIN reports :
                  (\A h \in 1..(i - 1) : h \notin ClustersOf(cl, reports[r].id))
                  => (i \in ClustersOf(cl, reports[r].id)
                        <=> QLe(calculateDistance(members[1].location,
                                                  reports[r].location),
                                calls[c].radiusKm))

\* A cluster whose center is not its seed's location, and a report within
\* radiusKm of that center that is a member of a later cluster
C23_Witness ==
    \E c \in ClusterCalls :
        LET cl == calls[c].locationClusters IN
        \E i \in DOMAIN cl : \E r \in DOMAIN reports :
            /\ cl[i].center # cl[i].reports[1].location
            /\ QLe(calculateDistance(cl[i].center, reports[r].location),
                   calls[c].radiusKm)
            /\ \E h \in DOMAIN cl : h > i /\ h \in ClustersOf(cl, reports[r].id)

\* C26: two reports with identical coordinates are members of the same
\* cluster, whatever the order of the input and the radius (0 included).
C26_SameCoordinatesSameCluster ==
    \A c \in ClusterCalls :
        \A r, q \in DOMAIN reports :
            reports[r].location = reports[q].location =>
                ClustersOf(calls[c].locationClusters, reports[r].id)
                    = ClustersOf(calls[c].locationClusters, reports[q].id)

\* Clustered with radius 0: the first and the third report, at the same
\* place, are one cluster, the second report between them in the input
\* another
C26_Witness ==
    \E c \in ClusterCalls :
        /\ calls[c].radiusKm = Q(0)
        /\ Len(reports) = 3
        /\ reports[1].location = reports[3].location
        /\ reports[1].location # reports[2].location
        /\ Len(calls[c].locationClusters) = 2
        /\ calls[c].locationClusters[1].reports = <<reports[1], reports[3]>>

---------------------------------------------------------------------------
(* Properties of the scorer and of the general forecast, under SpecGeneral *)

\* an integer from lo to hi
IsIntegerIn(a, lo, hi) == a.d = 1 /\ lo <= a.n /\ a.n <= hi

\* C1: every prediction the scorer produces has an integer crowdingLevel
\* from 0 to 100 and an integer confidence from 0 to 100, whatever the
\* cluster, the zones, daysAnalyzed and predictionHours are.
C1_ScoresWithin0And100 ==
    \A c \in Callers : \A j \in DOMAIN calls[c].analyzed :
        /\ IsIntegerIn(calls[c].analyzed[j].crowdingLevel, 0, 100)
        /\ IsIntegerIn(calls[c].analyzed[j].confidence, 0, 100)

GeneralDone == {c \in Callers : calls[c].op = "general" /\ calls[c].pc = "done"}

\* The positions of the analyzed predictions with a crowdingLevel above 20
Above20(analyzed) ==
    {j \in DOMAIN analyzed :
        analyzed[j].crowdingLevel.d # 0 /\
        analyzed[j].crowdingLevel.n > 20 * analyzed[j].crowdingLevel.d}

\* C2: the list the general forecast returns has no entry with a
\* crowdingLevel of 20 or less, holds every scored cluster's prediction
\* with a crowdingLevel above 20 exactly once and nothing else, and each
\* entry's crowdingLevel is at least that of the entry after it.
C2_FilteredAndSortedDescending ==
    \A c \in GeneralDone :
        LET ps == calls[c].predictions
            analyzed == calls[c].analyzed
        IN  /\ Len(analyzed) = Len(calls[c].locationClusters)
            /\ \A i \in DOMAIN ps :
                  ps[i].crowdingLevel.d = 1 /\ ps[i].crowdingLevel.n > 20
            /\ \A j \in Above20(analyzed) :
                  Cardinality({i \in DOMAIN ps : ps[i] = analyzed[j]}) = 1
            /\ Len(ps) = Cardinality(Above20(analyzed))
            /\ \A i \in 1..(Len(ps) - 1) :
                  ps[i].crowdingLevel.n >= ps[i + 1].crowdingLevel.n

\* Two clusters scored above 20, the second higher than the first: the
\* returned list has them the other way round
C2_Witness ==
    \E c \in GeneralDone :
        /\ Len(calls[c].analyzed) = 2
        /\ calls[c].analyzed[1].crowdingLevel.n > 20
        /\ calls[c].analyzed[2].crowdingLevel.n > calls[c].analyzed[1].crowdingLevel.n
        /\ calls[c].predictions = <<calls[c].analyzed[2], calls[c].analyzed[1]>>

\* The clock read at line 270 when the prediction at position j was made
AnalyzedAt(call, j) ==
    call.analyzed[j].predictedFor - call.predictionHours * Hour

\* No member is seven days old or older at the time t
AllWithinLast7Days(cluster, t) ==
    \A i \in DOMAIN cluster.reports : cluster.reports[i].createdAt > t - 7 * Day

\* C9: a cluster whose members were all created within the last 7 days
\* before now (later than now - 7 days: it has no older member) is scored
\* with the trend "increasing".
C9_AllRecentIsIncreasing ==
    \A c \in Callers : \A j \in DOMAIN calls[c].analyzed :
        AllWithinLast7Days(calls[c].locationClusters[j], AnalyzedAt(calls[c], j))
            => calls[c].analyzed[j].trend = "increasing"

\* A cluster without an older member has been scored, in a call that also
\* scored a cluster with an older member as not increasing
C9_Witness ==
    \E c \in Callers : \E j, k \in DOMAIN calls[c].analyzed :
        /\ AllWithinLast7Days(calls[c].locationClusters[j], AnalyzedAt(calls[c], j))
        /\ calls[c].analyzed[j].trend = "increasing"
        /\ ~AllWithinLast7Days(calls[c].locationClusters[k], AnalyzedAt(calls[c], k))
        /\ calls[c].analyzed[k].trend # "increasing"

\* The clock read at line 180 by a call that has read it
StartedAt(call) == call.startTime + call.daysToAnalyze * Day

\* C13: the general forecast clusters and scores only reports created in
\* the closed window from now - daysAnalyzed days to now, now being the
\* clock read at the start of the call: no member of a scored cluster was
\* created before the window's start or after now.
C13_ScoredMembersWithinWindow ==
    \A c \in Callers :
        calls[c].op = "general" =>
            \A j \in DOMAIN calls[c].analyzed :
                \A k \in DOMAIN calls[c].locationClusters[j].reports :
                    LET createdAt == calls[c].locationClusters[j].reports[k].createdAt
                    IN  /\ calls[c].startTime <= createdAt
                        /\ createdAt <= StartedAt(calls[c])

\* How many members of the cluster satisfy the test
CountMembers(cluster, Test(_)) ==
    Cardinality({k \in DOMAIN cluster.reports : Test(cluster.reports[k])})

\* How many zones have a center within 1 km of the cluster's centroid
CountNearbyZones(cluster, zs) ==
    Cardinality({i \in DOMAIN zs :
        /\ zs[i].center # <<>>
        /\ QLe(calculateDistance(cluster.center, zs[i].center[1]), Q(1))})

\* clamp(a, 0, 100)
Clamp0To100(a) ==
    IF IsNaN(a) THEN NaN ELSE IF QLt(a, Q(0)) THEN Q(0)
    ELSE IF QGt(a, Q(100)) THEN Q(100) ELSE a

\* The weighted sum of section 4.4 for a cluster scored at the time t
WeightedSum(cluster, zs, daysAnalyzed, predictionHours, t) ==
    LET total == Len(cluster.reports)
        AtHour(r) == getHours(r.createdAt) = getHours(t + predictionHours * Hour)
        OnDay(r) == getDay(r.createdAt) = getDay(t + predictionHours * Hour)
        IsHigh(r) == r.severity = "high"
        avgReportsPerDay == QDiv(Q(total), Q(daysAnalyzed))
        timeOfDayFactor ==
            IF CountMembers(cluster, AtHour) > 0
            THEN QMul(QDiv(Q(CountMembers(cluster, AtHour)), avgReportsPerDay), Q(100))
            ELSE Q(0)
        dayOfWeekFactor ==
            IF CountMembers(cluster, OnDay) > 0
            THEN QMul(QDiv(Q(CountMembers(cluster, OnDay)), Rat(total, 7)), Q(100))
            ELSE Q(0)
        weatherImpact == QMul(Rat(CountMembers(cluster, IsHigh), total), Q(100))
        activeZonesImpact == MathMin(Q(20 * CountNearbyZones(cluster, zs)), Q(100))
        densityImpact == MathMin(QMul(avgReportsPerDay, Q(10)), Q(100))
    IN  QAdd(QMul(Rat(25, 100), timeOfDayFactor),
        QAdd(QMul(Rat(20, 100), dayOfWeekFactor),
        QAdd(QMul(Rat(15, 100), weatherImpact),
        QAdd(QMul(Rat(25, 100), activeZonesImpact),
             QMul(Rat(15, 100), densityImpact)))))

\* C16: the crowdingLevel of every scored cluster is
\* round(clamp(0.25*timeOfDayFactor + 0.20*dayOfWeekFactor
\* + 0.15*weatherImpact + 0.25*activeZonesImpact
\* + 0.15*min(avgReportsPerDay*10, 100), 0, 100)), the two time factors
\* uncapped, whatever the cluster, the zones, daysAnalyzed and the
\* prediction time are.
C16_LevelIsRoundedClampedSum ==
    \A c \in Callers : \A j \in DOMAIN calls[c].analyzed :
        calls[c].analyzed[j].crowdingLevel =
            MathRound(Clamp0To100(
                WeightedSum(calls[c].locationClusters[j], calls[c].zones,
                            calls[c].daysToAnalyze, calls[c].predictionHours,
                            AnalyzedAt(calls[c], j))))

\* The trend of section 4.4 for recent members out of total
TrendBy(recent, total) ==
    LET older == total - recent
    IN  IF 10 * recent > 12 * older THEN "increasing"
        ELSE IF 10 * recent < 8 * older THEN "decreasing"
        ELSE "stable"

\* C17: the members created later than now - 7 days are the recent ones,
\* all others the older ones; the trend is "increasing" if
\* |recent| > 1.2 * |older|, else "decreasing" if |recent| < 0.8 * |older|,
\* else "stable".
C17_TrendByRecentAndOlder ==
    \A c \in Callers : \A j \in DOMAIN calls[c].analyzed :
        LET cluster == calls[c].locationClusters[j]
            IsRecent(r) == r.createdAt > AnalyzedAt(calls[c], j) - 7 * Day
        IN  /\ calls[c].analyzed[j].trend \in {"increasing", "decreasing", "stable"}
            /\ calls[c].analyzed[j].trend =
                  TrendBy(CountMembers(cluster, IsRecent), Len(cluster.reports))

\* One call has scored a cluster as increasing and one as decreasing, the
\* latter with a member created exactly seven days before it was scored
C17_Witness ==
    \E c \in Callers : \E j, k \in DOMAIN calls[c].analyzed :
        /\ calls[c].analyzed[j].trend = "increasing"
        /\ calls[c].analyzed[k].trend = "decreasing"
        /\ \E m \in DOMAIN calls[c].locationClusters[k].reports :
              calls[c].locationClusters[k].reports[m].createdAt =
                  AnalyzedAt(calls[c], k) - 7 * Day

\* Every number of the prediction is finite
AllFinite(prediction) ==
    /\ prediction.crowdingLevel.d # 0
    /\ prediction.confidence.d # 0
    /\ prediction.factors.historicalReports.d # 0
    /\ prediction.factors.timeOfDay.d # 0
    /\ prediction.factors.dayOfWeek.d # 0
    /\ prediction.factors.weatherImpact.d # 0

\* The bucket of the predicted hour and of the predicted weekday
PredictedHourData(cluster, prediction) ==
    patternGet(hourPatternsOf(cluster.reports), getHours(prediction.predictedFor))

PredictedDayData(cluster, prediction) ==
    patternGet(dayPatternsOf(cluster.reports), getDay(prediction.predictedFor))

\* C18: in scoring a cluster that the clustering produced, with
\* daysAnalyzed > 0, no divisor is zero: the cluster has at least one
\* member, the buckets of the predicted hour and weekday count at most the
\* members, avgReportsPerDay > 0 where the hour's count is > 0,
\* totalReports / 7 > 0 where the weekday's count is > 0, and every number
\* of the prediction is finite.
C18_NoZeroDivisor ==
    \A c \in Callers : \A j \in DOMAIN calls[c].analyzed :
        calls[c].daysToAnalyze > 0 =>
            LET cluster == calls[c].locationClusters[j]
                total == Len(cluster.reports)
                hourData == PredictedHourData(cluster, calls[c].analyzed[j])
                dayData == PredictedDayData(cluster, calls[c].analyzed[j])
            IN  /\ total >= 1
                /\ hourData.count <= total
                /\ dayData.count <= total
                /\ hourData.count > 0 =>
                      QGt(QDiv(Q(total), Q(calls[c].daysToAnalyze)), Q(0))
                /\ dayData.count > 0 => QGt(QDiv(Q(total), Q(7)), Q(0))
                /\ AllFinite(calls[c].analyzed[j])

\* A cluster of two is scored for an hour and a weekday both of its
\* members were created at
C18_Witness ==
    \E c \in Callers : \E j \in DOMAIN calls[c].analyzed :
        /\ calls[c].daysToAnalyze > 0
        /\ PredictedHourData(calls[c].locationClusters[j], calls[c].analyzed[j]).count = 2
        /\ PredictedDayData(calls[c].locationClusters[j], calls[c].analyzed[j]).count = 2
        /\ QGt(calls[c].analyzed[j].factors.timeOfDay, Q(100))

\* C20: the confidence of every scored cluster is
\* min(round(10 * |members| / daysAnalyzed), 100): a function of the
\* member count and daysAnalyzed alone.
C20_ConfidenceByCountAndDays ==
    \A c \in Callers : \A j \in DOMAIN calls[c].analyzed :
        calls[c].analyzed[j].confidence =
            MathMin(MathRound(Rat(10 * Len(calls[c].locationClusters[j].reports),
                                  calls[c].daysToAnalyze)),
                    Q(100))

\* One call has scored two clusters of one member each, of different
\* severity, one of them only with a zone nearby, with one confidence that
\* is neither 0 nor 100
C20_Witness ==
    \E c \in Callers : \E j, k \in DOMAIN calls[c].analyzed :
        /\ calls[c].daysToAnalyze > 0
        /\ calls[c].analyzed[j].factors.activeZones # calls[c].analyzed[k].factors.activeZones
        /\ calls[c].analyzed[j].factors.weatherImpact # calls[c].analyzed[k].factors.weatherImpact
        /\ calls[c].analyzed[j].confidence = calls[c].analyzed[k].confidence
        /\ QGt(calls[c].analyzed[j].confidence, Q(0))
        /\ QLt(calls[c].analyzed[j].confidence, Q(100))

\* The sum of the counts of the Map's buckets at these keys
RECURSIVE SumOfCounts(_, _)
SumOfCounts(patterns, keys) ==
    IF keys = {} THEN 0
    ELSE LET k == CHOOSE x \in keys : TRUE
         IN  patterns[k].count + SumOfCounts(patterns, keys \ {k})

\* Every bucket of the Map counts the members that satisfy its key's test
\* and sums their severity scores
BucketsAreBy(patterns, cluster, KeyOf(_)) ==
    /\ DOMAIN patterns = {KeyOf(cluster.reports[k]) : k \in DOMAIN cluster.reports}
    /\ \A key \in DOMAIN patterns :
          LET members == {k \in DOMAIN cluster.reports : KeyOf(cluster.reports[k]) = key}
              IsHigh(k) == cluster.reports[k].severity = "high"
              IsMedium(k) == cluster.reports[k].severity = "medium"
          IN  /\ patterns[key].count = Cardinality(members)
              /\ patterns[key].totalSeverity =
                    3 * Cardinality({k \in members : IsHigh(k)})
                    + 2 * Cardinality({k \in members : IsMedium(k)})
                    + Cardinality({k \in members : ~IsHigh(k) /\ ~IsMedium(k)})
              /\ patterns[key].count <= patterns[key].totalSeverity
              /\ patterns[key].totalSeverity <= 3 * patterns[key].count

\* C22: for every cluster the hour Map and the weekday Map get one count
\* and the severity score (high 3, medium 2, otherwise 1) of each member,
\* in the bucket of the member's hour and of its weekday: the counts of
\* either Map sum to the member count, and count <= totalSeverity <=
\* 3 * count in every bucket.
C22_BucketsCountEveryMemberOnce ==
    \A c \in Callers : \A j \in DOMAIN calls[c].locationClusters :
        LET cluster == calls[c].locationClusters[j]
            hourPatterns == hourPatternsOf(cluster.reports)
            dayPatterns == dayPatternsOf(cluster.reports)
            HourOf(r) == getHours(r.createdAt)
            DayOf(r) == getDay(r.createdAt)
        IN  /\ SumOfCounts(hourPatterns, DOMAIN hourPatterns) = Len(cluster.reports)
            /\ SumOfCounts(dayPatterns, DOMAIN dayPatterns) = Len(cluster.reports)
            /\ BucketsAreBy(hourPatterns, cluster, HourOf)
            /\ BucketsAreBy(dayPatterns, cluster, DayOf)

\* A cluster of two members of different severity and weekday, created at
\* the same hour, is being scored
C22_Witness ==
    \E c \in Callers : \E j \in DOMAIN calls[c].analyzed :
        LET rs == calls[c].locationClusters[j].reports
        IN  /\ Len(rs) = 2
            /\ rs[1].severity = "high" /\ rs[2].severity = "low"
            /\ getDay(rs[1].createdAt) # getDay(rs[2].createdAt)
            /\ Cardinality(DOMAIN dayPatternsOf(rs)) = 2
            /\ Cardinality(DOMAIN hourPatternsOf(rs)) = 1

\* C25: all predictions that one call of the general forecast returns have
\* the same predictedFor instant, and were scored for the same predicted
\* hour and weekday and with the same boundary between recent and older
\* members, also when the clock advances while the call scores its
\* clusters one after another.
C25_OneInstantPerForecast ==
    \A c \in GeneralDone :
        \A i, k \in DOMAIN calls[c].predictions :
            LET p == calls[c].predictions[i]
                q == calls[c].predictions[k]
            IN  /\ p.predictedFor = q.predictedFor
                /\ getHours(p.predictedFor) = getHours(q.predictedFor)
                /\ getDay(p.predictedFor) = getDay(q.predictedFor)
                /\ p.predictedFor - calls[c].predictionHours * Hour - 7 * Day
                     = q.predictedFor - calls[c].predictionHours * Hour - 7 * Day

---------------------------------------------------------------------------
(* Properties of calls that run at the same time, under SpecConcurrent *)

\* The clock values a call has read: at line 180 and, cluster by cluster,
\* at line 270
ClocksRead(call) ==
    <<StartedAt(call), [j \in DOMAIN call.analyzed |-> AnalyzedAt(call, j)]>>

\* C11: two invocations of the general forecast over the same stored
\* reports and zones, with the same daysAnalyzed and predictionHours, that
\* read the same clock values return equal lists, in the same order,
\* whether they run one after the other or one during the other: nothing an
\* invocation leaves behind changes what another returns.
C11_SameInputsSameForecast ==
    \A c, d \in DOMAIN calls :
        (/\ calls[c].op = "general" /\ calls[c].pc = "done"
         /\ calls[d].op = "general" /\ calls[d].pc = "done"
         /\ calls[c].daysToAnalyze = calls[d].daysToAnalyze
         /\ calls[c].predictionHours = calls[d].predictionHours
         /\ ClocksRead(calls[c]) = ClocksRead(calls[d]))
        => calls[c].predictions = calls[d].predictions

\* Two invocations with the same parameters and clock values have returned
\* a list of two predictions
C11_Witness ==
    \E c, d \in DOMAIN calls :
        /\ c # d
        /\ calls[c].op = "general" /\ calls[c].pc = "done"
        /\ calls[d].op = "general" /\ calls[d].pc = "done"
        /\ calls[c].daysToAnalyze = calls[d].daysToAnalyze
        /\ ClocksRead(calls[c]) = ClocksRead(calls[d])
        /\ Len(calls[c].predictions) = 2
        /\ Len(calls[d].predictions) = 2

\* What the call returns when it runs alone over the stored data and reads
\* the clock values it has read
ResultAlone(call) ==
    LET fetched == createdSince(reports, call.startTime)
        clusters == clusterReportsByLocation(fetched, Rat(1, 2))
        scored == [j \in DOMAIN clusters |->
                      analyzeCrowdingPattern(clusters[j], zones, call.daysToAnalyze,
                                             call.predictionHours,
                                             AnalyzedAt(call, j))]
        forecast == sortPredictions(
                        FilterAt(scored, {j \in DOMAIN scored : isSignificant(scored[j])}, 1))
    IN  [predictions |-> IF call.op = "hourly" THEN <<>> ELSE forecast,
         hourlyData |->
            IF call.op = "hourly"
            THEN hourlyPredictions(fetched, call.location, call.radiusKm,
                                   call.daysToAnalyze)
            ELSE <<>>,
         closest |->
            IF call.op = "specific"
            THEN closestPrediction(forecast, call.location, call.radiusKm)
            ELSE <<>>]

\* C12: with calls of the three operations interleaved at their awaits,
\* over stored data that does not change, every call returns the result it
\* returns when it runs alone; while it runs, its clusters are those of its
\* own fetch.
C12_InterleavedCallsReturnAsAlone ==
    \A c \in DOMAIN calls :
        /\ calls[c].pc \in {"score", "done"} /\ calls[c].op # "hourly" =>
              calls[c].locationClusters =
                  clusterReportsByLocation(createdSince(reports, calls[c].startTime),
                                           Rat(1, 2))
        /\ calls[c].pc = "done" =>
              /\ Len(calls[c].analyzed) = Len(calls[c].locationClusters)
              /\ calls[c].predictions = ResultAlone(calls[c]).predictions
              /\ calls[c].hourlyData = ResultAlone(calls[c]).hourlyData
              /\ calls[c].closest = ResultAlone(calls[c]).closest

\* A forecast over two clusters has returned two predictions while a
\* forecast with another window, over no cluster, is being scored
C12_Witness ==
    \E c, d \in DOMAIN calls :
        /\ calls[c].pc = "done" /\ calls[c].op = "general"
        /\ Len(calls[c].predictions) = 2
        /\ calls[d].pc = "score"
        /\ calls[d].startTime > calls[c].startTime
        /\ calls[d].locationClusters # calls[c].locationClusters

\* Every report and zone record a call holds, as fetched or as member of a
\* cluster, is a stored record
HeldRecordsAreStored ==
    \A c \in DOMAIN calls :
        /\ \A k \in DOMAIN calls[c].reports :
              \E r \in DOMAIN reports : reports[r] = calls[c].reports[k]
        /\ \A k \in DOMAIN calls[c].zones : calls[c].zones[k] = zones[k]
        /\ \A j \in DOMAIN calls[c].locationClusters :
              \A k \in DOMAIN calls[c].locationClusters[j].reports :
                  \E r \in DOMAIN reports :
                      reports[r] = calls[c].locationClusters[j].reports[k]

\* C24: the three query operations leave the report and zone records as
\* they are: every report a call holds, fetched or clustered, has the id,
\* location, severity and createdAt of the stored report, every zone its
\* center, at every step of every call; and no step writes the stored
\* reports or zones.
C24_RecordsUnchanged ==
    /\ []HeldRecordsAreStored
    /\ [][reports' = reports /\ zones' = zones]_vars

\* A point lookup has returned over a cluster of two members whose center
\* is not the seed's location, with a zone fetched
C24_Witness ==
    \E c \in DOMAIN calls :
        /\ calls[c].pc = "done"
        /\ calls[c].op = "specific"
        /\ Len(calls[c].zones) = 1
        /\ \E j \in DOMAIN calls[c].locationClusters :
              /\ Len(calls[c].locationClusters[j].reports) = 2
              /\ calls[c].locationClusters[j].center #
                    calls[c].locationClusters[j].reports[1].location

---------------------------------------------------------------------------
(* Properties of the scorer's zone factor, under SpecZones *)

\* C19: the scorer counts as nearby exactly the zones that have a center
\* at most 1.0 km from the cluster's centroid, zones without a center never;
\* factors.activeZones is that count, uncapped, and the count enters the
\* crowdingLevel as activeZonesImpact = min(20 * count, 100).
C19_NearbyZonesWithin1KmOfCentroid ==
    \A c \in Callers : \A j \in DOMAIN calls[c].analyzed :
        LET cluster == calls[c].locationClusters[j]
        IN  /\ calls[c].analyzed[j].factors.activeZones =
                  CountNearbyZones(cluster, calls[c].zones)
            /\ calls[c].analyzed[j].crowdingLevel =
                  MathMin(MathRound(
                      WeightedSum(cluster, calls[c].zones,
                                  calls[c].daysToAnalyze, calls[c].predictionHours,
                                  AnalyzedAt(calls[c], j))),
                      Q(100))

\* Six zones are counted for a cluster of two, one of them exactly 1 km
\* from the centroid and farther than 1 km from the seed; the level is 25
C19_Witness ==
    \E c \in Callers : \E j \in DOMAIN calls[c].analyzed :
        LET cluster == calls[c].locationClusters[j]
        IN  /\ Len(cluster.reports) = 2
            /\ calls[c].analyzed[j].factors.activeZones = 6
            /\ calls[c].analyzed[j].crowdingLevel = Q(25)
            /\ \E i \in DOMAIN calls[c].zones :
                  /\ calls[c].zones[i].center # <<>>
                  /\ calculateDistance(cluster.center, calls[c].zones[i].center[1]) = Q(1)
                  /\ QGt(calculateDistance(cluster.reports[1].location,
                                           calls[c].zones[i].center[1]), Q(1))

---------------------------------------------------------------------------
(* Properties of the hourly profile and of the three operations' handling  *)
(* of their parameters, under SpecHourly                                   *)

HourlyDone == {c \in Callers : calls[c].op = "hourly" /\ calls[c].pc = "done"}

\* C5: the hourly profile returns exactly 24 entries, whose hour fields are
\* 0, 1, ..., 23 in this order, whatever the stored reports, the location,
\* the radius and daysToAnalyze are.
C5_HourlyHas24HoursInOrder ==
    \A c \in HourlyDone :
        /\ Len(calls[c].hourlyData) = 24
        /\ \A k \in 1..24 : calls[c].hourlyData[k].hour = k - 1

\* A profile over two fetched reports of which at least one is in a bucket
C5_Witness ==
    \E c \in HourlyDone :
        /\ Len(calls[c].reports) = 2
        /\ \E k \in 1..24 : QGt(calls[c].hourlyData[k].crowdingLevel, Q(0))
        /\ \E k \in 1..24 : calls[c].hourlyData[k].crowdingLevel = Q(0)

\* C6: with no report in the lookback window, the general forecast returns
\* the empty list, the hourly profile 24 entries with crowdingLevel 0 and
\* confidence 0 each, and the point-in-time lookup null.
C6_EmptyWindowGivesEmptyResults ==
    \A c \in Callers :
        (calls[c].pc = "done" /\ calls[c].reports = <<>>) =>
            /\ calls[c].op = "general" => calls[c].predictions = <<>>
            /\ calls[c].op = "hourly" =>
                  /\ Len(calls[c].hourlyData) = 24
                  /\ \A k \in 1..24 :
                        /\ calls[c].hourlyData[k].crowdingLevel = Q(0)
                        /\ calls[c].hourlyData[k].confidence = Q(0)
            /\ calls[c].op = "specific" => calls[c].closest = <<>>

\* The parameters that section 7 of the specification calls invalid
InvalidParameter(call) ==
    \/ call.daysToAnalyze <= 0
    \/ /\ call.op \in {"hourly", "specific"}
       /\ \/ ~QGt(call.radiusKm, Q(0))
          \/ IsNaN(call.location)

\* C7: a call of one of the three query operations with daysAnalyzed <= 0,
\* or of the hourly or point query with radiusKm <= 0 or a NaN coordinate,
\* fails before anything is computed: it never gets to fetch, cluster,
\* score or bucket, and never returns a result computed from the value.
C7_InvalidParameterFailsFast ==
    \A c \in Callers :
        (calls[c].op \in {"general", "hourly", "specific"}
            /\ InvalidParameter(calls[c]))
            => calls[c].pc \notin {"fetch", "score", "done"}

\* The positions of the stored reports in the call's window that are within
\* radiusKm of its location and were created at the hour h
HourBucketOf(call, h) ==
    {i \in DOMAIN reports :
        /\ reports[i].createdAt >= call.startTime
        /\ QLe(calculateDistance(call.location, reports[i].location), call.radiusKm)
        /\ getHours(reports[i].createdAt) = h}

\* The sum of the severity scores of the reports at these positions
SeveritySumOf(bucket) ==
    3 * Cardinality({i \in bucket : reports[i].severity = "high"})
    + 2 * Cardinality({i \in bucket : reports[i].severity = "medium"})
    + Cardinality({i \in bucket : reports[i].severity \notin {"high", "medium"}})

\* C21: for each hour h of 0..23 the hourly profile takes the reports of its
\* window within radiusKm (inclusive) of the location that were created at
\* the hour h, whatever their weekday, unclustered and whatever the zones;
\* with avgSeverity the mean of their severity scores (0 for none) the
\* entry's crowdingLevel is min(round(avgSeverity * 33.33), 100) and its
\* confidence min(round(bucketCount / (daysAnalyzed / 24) * 100), 100);
\* both are integers of 0..100 when daysAnalyzed > 0.
C21_HourlyEntryByBucket ==
    \A c \in HourlyDone : \A h \in 0..23 :
        LET call == calls[c]
            bucket == HourBucketOf(call, h)
            bucketCount == Cardinality(bucket)
            avgSeverity ==
                IF bucketCount = 0 THEN Q(0) ELSE Rat(SeveritySumOf(bucket), bucketCount)
            entry == call.hourlyData[h + 1]
        IN  /\ entry.crowdingLevel =
                  MathMin(MathRound(QMul(avgSeverity, Rat(3333, 100))), Q(100))
            /\ entry.confidence =
                  MathMin(MathRound(QMul(QDiv(Q(bucketCount),
                                              Rat(call.daysToAnalyze, 24)),
                                         Q(100))),
                          Q(100))
            /\ call.daysToAnalyze > 0 =>
                  /\ IsIntegerIn(entry.crowdingLevel, 0, 100)
                  /\ IsIntegerIn(entry.confidence, 0, 100)

\* A profile with radius 0 over two stored reports of different severity,
\* created at the same hour, of which the one at the location itself is in
\* the bucket and the other, 0.44 km away, is not
C21_Witness ==
    \E c \in HourlyDone :
        /\ calls[c].radiusKm = Q(0)
        /\ calls[c].daysToAnalyze > 0
        /\ Len(calls[c].reports) = 2
        /\ calls[c].reports[1].severity # calls[c].reports[2].severity
        /\ \E h \in 0..23 :
              /\ Cardinality(HourBucketOf(calls[c], h)) = 1
              /\ QGt(calls[c].hourlyData[h + 1].crowdingLevel, Q(0))

---------------------------------------------------------------------------
(* Properties of the point-in-time lookup, under SpecPoint *)

PointDone == {c \in Callers : calls[c].op = "specific" /\ calls[c].pc = "done"}

\* The positions of the forecast's entries within the radius of the location
WithinRadius(call) ==
    {i \in DOMAIN call.predictions :
        QLe(calculateDistance(call.location, call.predictions[i].location),
            call.radiusKm)}

\* C8: the point-in-time lookup takes as predictionHours the hours from the
\* clock at the call to the target instant, rounded (a half up); the
\* forecast it runs scores every cluster for that horizon; it returns null
\* exactly when no entry of the forecast is within radiusKm of the
\* location, and otherwise an entry within radiusKm to which no other such
\* entry is nearer.
C8_NearestEntryOfTheForecast ==
    \A c \in PointDone :
        LET call == calls[c]
            ps == call.predictions
        IN  /\ call.predictionHours =
                  (2 * (call.targetTime - call.calledAt) + Hour) \div (2 * Hour)
            /\ \A j \in DOMAIN call.analyzed :
                  /\ call.calledAt <= AnalyzedAt(call, j)
                  /\ AnalyzedAt(call, j) <= now
                  /\ call.analyzed[j].basedOnDays = call.daysToAnalyze
            /\ \A i \in DOMAIN ps : ps[i] \in {call.analyzed[j] : j \in Above20(call.analyzed)}
            /\ (call.closest = <<>>) <=> (WithinRadius(call) = {})
            /\ call.closest # <<>> =>
                  /\ Len(call.closest) = 1
                  /\ \E i \in WithinRadius(call) : ps[i] = call.closest[1]
                  /\ \A i \in WithinRadius(call) :
                        QLe(calculateDistance(call.location, call.closest[1].location),
                            calculateDistance(call.location, ps[i].location))

\* The forecast has two entries within the radius, the first nearer than the
\* second, and the first is returned; the horizon was rounded up from a half
C8_Witness ==
    \E c \in PointDone :
        /\ (calls[c].targetTime - calls[c].calledAt) % Hour # 0
        /\ WithinRadius(calls[c]) = {1, 2}
        /\ QLt(calculateDistance(calls[c].location, calls[c].predictions[1].location),
               calculateDistance(calls[c].location, calls[c].predictions[2].location))
        /\ calls[c].closest = <<calls[c].predictions[1]>>

---------------------------------------------------------------------------
(* The general forecast over one dense group of reports: ten reports of    *)
(* severity high, at most 0.111 km from one another, all stamped on the    *)
(* Friday of Now0 between 18:00 and 19:00, and one zone at most 1 km from  *)
(* their centroid.  The forecast is asked for 7 days while all ten reports *)
(* are at most 7 days old.                                                  *)

\* How many of the ten reports are at latitude 0, the others at 0.001
E2ESplits == {0, 3, 10}

\* How many of the ten reports are stamped 18:00, the others 18:30
E2EStamps == {0, 5, 10}

\* 0.89 km north of latitude 0, at latitude 0, 0.78 km south of it
E2EZoneCenters == {Q(8), Q(0), Q(-7)}

\* an hour, two days, six days after 18:00 of that Friday
E2EClocks == {Now0 + Hour, Now0 + 2 * Day, Now0 + 6 * Day}

E2EHours == {0, 5, 30}

E2EReports(a, b) ==
    [i \in 1..10 |->
        [id |-> i,
         location |-> IF i <= a THEN Q(0) ELSE Q(1),
         severity |-> "high",
         createdAt |-> IF i <= b THEN Now0 ELSE Now0 + 1]]

InitE2E ==
    /\ reports \in {E2EReports(a, b) : a \in E2ESplits, b \in E2EStamps}
    /\ zones \in {<<[center |-> <<z>>]>> : z \in E2EZoneCenters}
    /\ now \in E2EClocks
    /\ ticks = 0
    /\ calls = [c \in Callers |-> Idle]

NextE2E ==
    \/ \E c \in Callers, hours \in E2EHours : CallGeneral(c, 7, hours)
    \/ \E c \in Callers : ReadClock(c)
    \/ \E c \in Callers : FetchAndCluster(c)
    \/ \E c \in Callers : Analyze(c)
    \/ \E c \in Callers : Return(c)
    \/ \E c \in Callers : Taken(c)
    \/ Tick

SpecE2E == InitE2E /\ [][NextE2E]_vars

\* C10: over ten high-severity reports within 200 m of one another, all
\* created at hour 18 of a Friday within the 7-day window, and one zone
\* whose center is within 1 km of their centroid, the general forecast
\* with daysAnalyzed = 7 returns exactly one prediction, whose
\* factors.activeZones is 1, factors.weatherImpact 100 and confidence 14,
\* whatever hour and weekday are predicted.
C10_DenseFridayGroupGivesOnePrediction ==
    \A c \in GeneralDone :
        /\ Len(calls[c].predictions) = 1
        /\ calls[c].predictions[1].factors.activeZones = 1
        /\ calls[c].predictions[1].factors.weatherImpact = Q(100)
        /\ calls[c].predictions[1].confidence = Q(14)

\* The forecast of the group was returned for an hour other than 18 of a
\* day other than Friday, the reports being at two latitudes
C10_Witness ==
    \E c \in GeneralDone :
        /\ Len(calls[c].reports) = 10
        /\ \E i, j \in 1..10 : calls[c].reports[i].location # calls[c].reports[j].location
        /\ Len(calls[c].predictions) = 1
        /\ getHours(calls[c].predictions[1].predictedFor) # 18
        /\ getDay(calls[c].predictions[1].predictedFor) # 5

---------------------------------------------------------------------------
(* Further properties of the general forecast, under SpecGeneral *)

\* C28: predictions with equal crowdingLevel appear in the general
\* forecast in the order in which their clusters' seed reports were
\* encountered in the report sequence: of two returned entries with the
\* same crowdingLevel the earlier one is the prediction of a cluster that
\* was scored earlier and whose seed comes earlier among the fetched
\* reports.
C28_EqualLevelsInClusterOrder ==
    \A c \in GeneralDone :
        LET call == calls[c]
            ps == call.predictions
        IN  \A i, k \in DOMAIN ps :
                (i < k /\ ps[i].crowdingLevel = ps[k].crowdingLevel) =>
                    \E a, b \in DOMAIN call.analyzed :
                        /\ a < b
                        /\ call.analyzed[a] = ps[i]
                        /\ call.analyzed[b] = ps[k]
                        /\ SeedPosition(call.reports, call.locationClusters[a])
                             < SeedPosition(call.reports, call.locationClusters[b])

\* Two clusters at different places have been scored with the same
\* crowdingLevel above 20 and both are in the returned list
C28_Witness ==
    \E c \in GeneralDone :
        /\ Len(calls[c].predictions) = 2
        /\ calls[c].predictions[1].crowdingLevel = calls[c].predictions[2].crowdingLevel
        /\ calls[c].predictions[1].location # calls[c].predictions[2].location
        /\ calls[c].predictions[1] = calls[c].analyzed[1]

\* The call read the same clock value at line 180 and at line 270 for
\* every cluster
ClockFixed(call) ==
    \A j \in DOMAIN call.analyzed : AnalyzedAt(call, j) = StartedAt(call)

\* C29: with a fixed clock, when daysAnalyzed is positive and less than 7,
\* every prediction the general forecast returns has the trend
\* "increasing".
C29_ShortWindowIsIncreasing ==
    \A c \in GeneralDone :
        (/\ calls[c].daysToAnalyze > 0
         /\ calls[c].daysToAnalyze < 7
         /\ ClockFixed(calls[c]))
            => \A i \in DOMAIN calls[c].predictions :
                   calls[c].predictions[i].trend = "increasing"

\* A forecast over a window of less than 7 days has returned a prediction,
\* the clock standing still, while a report older than the window is stored
C29_Witness ==
    \E c \in GeneralDone :
        /\ calls[c].daysToAnalyze > 0
        /\ calls[c].daysToAnalyze < 7
        /\ ClockFixed(calls[c])
        /\ calls[c].predictions # <<>>
        /\ \E i \in DOMAIN reports : reports[i].createdAt < calls[c].startTime

---------------------------------------------------------------------------
(* Further properties of the point-in-time lookup, under SpecPoint *)

\* The positions of the scored clusters whose centroid is within the radius
\* of the location
ScoredWithinRadius(call) ==
    {j \in DOMAIN call.analyzed :
        QLe(calculateDistance(call.location, call.analyzed[j].location),
            call.radiusKm)}

\* C27: the point-in-time lookup returns no prediction with a crowdingLevel
\* of 20 or less; it returns null when every cluster with the centroid
\* within radiusKm of the location scores 20 or less; and of the forecast's
\* entries within radiusKm that are equally near and nearest it returns the
\* one that comes first in the forecast list.
C27_OnlySignificantFirstOfNearest ==
    \A c \in PointDone :
        LET call == calls[c]
            ps == call.predictions
            Distance(i) == calculateDistance(call.location, ps[i].location)
            nearest == {i \in WithinRadius(call) :
                           \A k \in WithinRadius(call) : QLe(Distance(i), Distance(k))}
        IN  /\ call.closest # <<>> => QGt(call.closest[1].crowdingLevel, Q(20))
            /\ (\A j \in ScoredWithinRadius(call) :
                    ~QGt(call.analyzed[j].crowdingLevel, Q(20)))
                  => call.closest = <<>>
            /\ call.closest # <<>> =>
                  /\ nearest # {}
                  /\ call.closest[1] = ps[CHOOSE i \in nearest :
                                              \A k \in nearest : i <= k]

\* The lookup has returned null although a cluster's centroid is within
\* the radius of the location: the cluster scored 20 or less
C27_Witness ==
    \E c \in PointDone :
        /\ ScoredWithinRadius(calls[c]) # {}
        /\ calls[c].closest = <<>>
        /\ calls[c].daysToAnalyze > 0

---------------------------------------------------------------------------
(* Properties of the predictions route, under SpecRoute *)

\* The request has a received call: the handler has got past line 27
Received == {c \in Callers : calls[c].pc # "idle"}

\* The parameter is left out or empty, does not parse to a number, or
\* parses to 0
MissingUnparseableOrZero(param, Parse(_)) ==
    \/ param = <<>>
    \/ param[1] = <<>>
    \/ IsNaN(Parse(param[1]))
    \/ Parse(param[1]) = Q(0)

\* C30: the predictions route answers a type=hourly or type=specific
\* request whose lat or lng is missing, unparseable or 0, a type=specific
\* request whose time is missing or 0, and a request of any other type than
\* general, hourly and specific with status 400 and without calling the
\* engine; it answers 404 when the point lookup has returned null, and 500
\* when the engine has thrown.
C30_RouteStatuses ==
    \A c \in Received :
        LET call == calls[c]
            request == call.request
            type == typeOf(request)
            rejected == /\ call.pc = "responded"
                        /\ call.status = 400
                        /\ call.op = "none"
        IN  /\ (/\ type \in {"hourly", "specific"}
                /\ \/ MissingUnparseableOrZero(request.lat, parseFloat)
                   \/ MissingUnparseableOrZero(request.lng, parseFloat))
                  => rejected
            /\ (/\ type = "specific"
                /\ MissingUnparseableOrZero(request.time, parseInt))
                  => rejected
            /\ type \notin {"general", "hourly", "specific"} => rejected
            /\ call.pc = "responded" =>
                  /\ call.thrown => call.status = 500
                  /\ (~call.thrown /\ call.op = "specific" /\ call.closest = <<>>)
                        => call.status = 404

\* A type=specific request with a lat and a time that parse to numbers
\* other than 0 and with lng=0 has been answered with 400, the engine not
\* called
C30_Witness ==
    \E c \in Received :
        /\ calls[c].pc = "responded"
        /\ typeOf(calls[c].request) = "specific"
        /\ ~MissingUnparseableOrZero(calls[c].request.lat, parseFloat)
        /\ ~MissingUnparseableOrZero(calls[c].request.time, parseInt)
        /\ calls[c].request.lng = <<<<"0">>>>
        /\ calls[c].status = 400
        /\ calls[c].op = "none"

===========================================================================
